---- MODULE Spec2Model ----
(***************************************************************************)
(* idna_mapping: the UTS 46 mapping step.                                  *)
(*                                                                         *)
(*   find_char      range-table lookup (src/lib.rs 54-71)                  *)
(*   decode_slice   replacement text of a Mapped entry (src/lib.rs 37-43)  *)
(*   Mapper::next   the lazy transformer (src/lib.rs 95-134)               *)
(*   JoiningType / JoiningTypeMask (src/lib.rs 140-187)                    *)
(*                                                                         *)
(* The generated data (uts46_mapping_table.rs: TABLE, MAPPING_TABLE,       *)
(* STRING_TABLE) is included by src/lib.rs line 26 and is generated, not   *)
(* kept under src/.  It is modelled here by a small table in the same      *)
(* format, following section 3 of the specification and the repository's   *)
(* own test (mapping_fast_path).                                           *)
(*                                                                         *)
(* Codepoints, bytes and indices are naturals.  Rust indices are 0-based;  *)
(* the sequences below are 1-based, so element i of a Rust slice is        *)
(* element i + 1 of the sequence.                                          *)
(***************************************************************************)
EXTENDS Integers, Sequences, FiniteSets

VARIABLES
    \* ---- Mapper<I> (src/lib.rs 73-80) and its observer
    chars,              \* self.chars: what the source iterator still holds
    slice,              \* self.slice: Option<Chars<'static>>
    ignored_as_errors,  \* self.ignored_as_errors
    input,              \* the sequence the Mapper was constructed over
    out,                \* the characters next() has returned so far
    contrib,            \* contrib[i]: the characters input[i] has contributed
    slice_owner,        \* position in input of the codepoint that set self.slice
    call,               \* what the last next() call did
    \* ---- a single lookup
    overflow_checks,    \* the build's overflow checks (debug: on, release: off)
    codepoint,          \* the argument of find_char
    found,              \* what find_char did
    text,               \* what decode_slice did
    pc,                 \* position of the lookup / of the joining-type query
    \* ---- joining types
    jt_repr,            \* discriminant of every unicode_joining_type variant
    jt,                 \* a JoiningType
    jt_other,           \* another JoiningType
    masks               \* results of to_mask / intersects / is_transparent

vars == <<chars, slice, ignored_as_errors, input, out, contrib, slice_owner,
          call, overflow_checks, codepoint, found, text, pc,
          jt_repr, jt, jt_other, masks>>

mapperVars == <<chars, slice, ignored_as_errors, input, out, contrib,
                slice_owner, call>>
lookupVars == <<codepoint, found, text>>
joiningVars == <<jt_repr, jt, jt_other, masks>>

----------------------------------------------------------------------------
(* Bounds of the model *)

\* Longest input sequence handed to Mapper::new.
MaxLen == 3

----------------------------------------------------------------------------
(* Machine arithmetic *)

\* Number of values of a u16.
U16 == 65536

\* const SINGLE_MARKER: u16 = 1 << 15;
SINGLE_MARKER == 32768

\* '\u{FFFD}'
REPLACEMENT_CHARACTER == 65533

\* The largest char.
CHAR_MAX == 1114111

\* char excludes the surrogates U+D800..U+DFFF.
IsChar(c) == c \in 0..CHAR_MAX /\ ~(c \in 55296..57343)

\* The outcome of a computation that may panic.
Panic == [panic |-> TRUE, val |-> 0]
Ok(v) == [panic |-> FALSE, val |-> v]

\* a - b on u16: with overflow checks a panic when b > a, wrapping otherwise.
SubU16(a, b, checks) ==
    IF a >= b THEN Ok(a - b)
    ELSE IF checks THEN Panic
    ELSE Ok(a - b + U16)

\* a + b on u16: with overflow checks a panic when the sum does not fit,
\* wrapping otherwise.
AddU16(a, b, checks) ==
    IF a + b < U16 THEN Ok(a + b)
    ELSE IF checks THEN Panic
    ELSE Ok((a + b) % U16)

----------------------------------------------------------------------------
(* The generated data, in the format find_char and decode_slice read *)

Valid == [tag |-> "Valid", byte_start_lo |-> 0, byte_start_hi |-> 0, byte_len |-> 0]
Ignored == [tag |-> "Ignored", byte_start_lo |-> 0, byte_start_hi |-> 0, byte_len |-> 0]
Disallowed == [tag |-> "Disallowed", byte_start_lo |-> 0, byte_start_hi |-> 0, byte_len |-> 0]
\* Mapped(StringTableSlice { byte_start_lo, byte_start_hi, byte_len })
Mapped(start, len) ==
    [tag |-> "Mapped", byte_start_lo |-> start % 256,
     byte_start_hi |-> start \div 256, byte_len |-> len]

\* The 26 lowercase letters, then replacement strings of other entries (here
\* more lowercase letters, up to byte 256), then from byte 256 on:
\*   256 "1/4" with U+2044 FRACTION SLASH (31 E2 81 84 34)
\*   261 "1/2" (31 E2 81 84 32)      266 "3/4" (33 E2 81 84 34)
\*   271 "ss"  (73 73)
STRING_TABLE ==
    [i \in 1..256 |-> 97 + ((i - 1) % 26)]
    \o <<49, 226, 129, 132, 52>>
    \o <<49, 226, 129, 132, 50>>
    \o <<51, 226, 129, 132, 52>>
    \o <<115, 115>>

\* Entry 0 Disallowed, 1 Valid, 2 Ignored, 3..28 Mapped to "a".."z",
\* 29..31 Mapped to the vulgar fractions' expansions, 32 Mapped to the empty
\* string (byte_len 0, which StringTableSlice permits and section 4.2 of the
\* specification names), 33 Mapped to "ss".
MAPPING_TABLE ==
    <<Disallowed, Valid, Ignored>>
    \o [i \in 1..26 |-> Mapped(i - 1, 1)]
    \o <<Mapped(256, 5), Mapped(261, 5), Mapped(266, 5), Mapped(271, 0),
         Mapped(271, 2)>>

\* A range whose codepoints all share mapping entry `offset`.
Single(offset) == SINGLE_MARKER + offset

\* (base, packed value), ascending by base, the first base U+0000.
TABLE == <<
    <<0, Single(0)>>,        \* U+0000..       Disallowed
    <<45, Single(1)>>,       \* '-' '.'        Valid
    <<47, Single(0)>>,       \* '/'            Disallowed
    <<48, Single(1)>>,       \* '0'..'9'       Valid
    <<58, Single(0)>>,       \* ':'..'@'       Disallowed
    <<65, 3>>,               \* 'A'..'Z'       one entry each: "a".."z"
    <<91, Single(0)>>,       \* '['..'`'       Disallowed
    <<97, Single(1)>>,       \* 'a'..'z'       Valid
    <<123, Single(0)>>,      \* '{'..U+00AC    Disallowed
    <<173, Single(2)>>,      \* U+00AD         Ignored
    <<174, Single(1)>>,      \* U+00AE..       Valid
    <<188, 29>>,             \* U+00BC..U+00BE one entry each: the fractions
    <<191, Single(1)>>,      \* U+00BF..       Valid
    <<7838, Single(33)>>,    \* U+1E9E         "ss"
    <<7839, Single(1)>>,     \* U+1E9F..       Valid
    <<8203, Single(32)>>,    \* U+200B         the empty replacement
    <<8204, Single(1)>>,     \* U+200C..       Valid
    <<65520, Single(0)>>,    \* U+FFF0..U+FFFF Disallowed (holds U+FFFD)
    <<65536, Single(1)>>,    \* U+10000..      Valid
    <<119808, 3>>,           \* U+1D400..U+1D419 one entry each: "a".."z"
    <<119834, Single(1)>>,   \* U+1D41A..      Valid
    <<131070, Single(0)>>,   \* U+1FFFE..      Disallowed
    <<131072, Single(1)>>,   \* U+20000..      Valid
    <<201547, Single(0)>>,   \* U+3134B..U+E00FF Disallowed
    <<917760, Single(2)>>,   \* U+E0100..U+E01EF Ignored
    <<918000, Single(0)>>    \* U+E01F0..U+10FFFF Disallowed
>>

----------------------------------------------------------------------------
(* decode_slice *)

\* str::is_char_boundary on a byte sequence: index 0, the length, or a byte
\* that is not a UTF-8 continuation byte (0x80..0xBF).
IsCharBoundary(bytes, i) ==
    \/ i = 0
    \/ i = Len(bytes)
    \/ i < Len(bytes) /\ ~(bytes[i + 1] \in 128..191)

\* Number of bytes of the UTF-8 sequence that starts with byte b.
Utf8Width(b) ==
    IF b < 128 THEN 1 ELSE IF b < 224 THEN 2 ELSE IF b < 240 THEN 3 ELSE 4

\* The scalar value encoded by the first Utf8Width bytes of `bytes`.
Utf8Scalar(bytes) ==
    LET b == bytes[1] w == Utf8Width(b) IN
    CASE w = 1 -> b
      [] w = 2 -> (b % 32) * 64 + (bytes[2] % 64)
      [] w = 3 -> (b % 16) * 4096 + (bytes[2] % 64) * 64 + (bytes[3] % 64)
      [] OTHER -> (b % 8) * 262144 + (bytes[2] % 64) * 4096
                  + (bytes[3] % 64) * 64 + (bytes[4] % 64)

\* str::chars(), collected: the scalar values of a UTF-8 byte sequence.
RECURSIVE Utf8Chars(_)
Utf8Chars(bytes) ==
    IF bytes = <<>> THEN <<>>
    ELSE LET w == Utf8Width(bytes[1]) IN
         <<Utf8Scalar(bytes)>> \o Utf8Chars(SubSeq(bytes, w + 1, Len(bytes)))

\* decode_slice(slice) over string table `strings`, then .chars(): the
\* characters of strings[start..(start + len)], or a panic when the range is
\* out of bounds or does not lie on character boundaries.
decode_slice_of(strings, m) ==
    LET lo == m.byte_start_lo
        hi == m.byte_start_hi
        start == hi * 256 + lo
        len == m.byte_len
    IN  IF /\ start + len <= Len(strings)
           /\ IsCharBoundary(strings, start)
           /\ IsCharBoundary(strings, start + len)
        THEN Ok(Utf8Chars(SubSeq(strings, start + 1, start + len)))
        ELSE Panic

decode_slice(m) == decode_slice_of(STRING_TABLE, m)

----------------------------------------------------------------------------
(* find_char *)

\* slice::binary_search_by_key over the bases of T, between lo and hi:
\* Ok(idx) when T[idx].0 = key, otherwise Err(idx) with idx the place the key
\* would be inserted at.
RECURSIVE binary_search_by_key(_, _, _, _)
binary_search_by_key(T, key, lo, hi) ==
    IF lo >= hi THEN [ok |-> FALSE, idx |-> lo]
    ELSE LET mid == lo + ((hi - lo) \div 2)
             k == T[mid + 1][1]
         IN  IF k = key THEN [ok |-> TRUE, idx |-> mid]
             ELSE IF k < key THEN binary_search_by_key(T, key, mid + 1, hi)
             ELSE binary_search_by_key(T, key, lo, mid)

\* A plausible slip: Err(idx) => idx, the decrement forgotten.
TableIndexNoDecrement(T, cp) ==
    LET r == binary_search_by_key(T, cp, 0, Len(T)) IN Ok(r.idx)

\* let idx = match TABLE.binary_search_by_key(..) { Ok(idx) => idx,
\*                                                  Err(idx) => idx - 1 };
\* idx - 1 on usize 0 panics with overflow checks and wraps to usize::MAX
\* without, where TABLE[idx] panics: a panic in either build.
TableIndex(T, cp) ==
    LET r == binary_search_by_key(T, cp, 0, Len(T)) IN
    IF r.ok THEN Ok(r.idx)
    ELSE IF r.idx = 0 THEN Panic
    ELSE Ok(r.idx - 1)

\* A plausible slip: the flag bit left in the offset.
MappingIndexFlagKept(base, x, cp, checks) ==
    LET single == x >= SINGLE_MARKER
        offset == x
    IN  IF single THEN Ok(offset)
        ELSE LET d == SubU16(cp % U16, base % U16, checks) IN
             IF d.panic THEN Panic ELSE AddU16(offset, d.val, checks)

\* let single = (x & SINGLE_MARKER) != 0; let offset = !SINGLE_MARKER & x;
\* if single { offset } else { offset + (codepoint as u16 - base as u16) }
MappingIndex(base, x, cp, checks) ==
    LET single == x >= SINGLE_MARKER
        offset == x % SINGLE_MARKER
    IN  IF single THEN Ok(offset)
        ELSE LET d == SubU16(cp % U16, base % U16, checks) IN
             IF d.panic THEN Panic ELSE AddU16(offset, d.val, checks)

\* What a call of find_char did: idx the element of the range table chosen,
\* index the element of the mapping entries chosen, mapping the entry
\* returned.  at tells where the call panicked: "idx" (idx - 1 or TABLE[idx]),
\* "arith" (the u16 subtraction or addition), "entry" (MAPPING_TABLE[..]);
\* "none" when it returned.
NoLookup ==
    [panic |-> FALSE, at |-> "none", idx |-> 0, index |-> 0, mapping |-> Valid]

\* find_char over range table T and mapping entries M.
find_char_in(T, M, cp, checks) ==
    LET i == TableIndex(T, cp) IN
    IF i.panic \/ i.val >= Len(T)
    THEN [NoLookup EXCEPT !.panic = TRUE, !.at = "idx"]
    ELSE LET e == T[i.val + 1]
             j == MappingIndex(e[1], e[2], cp, checks)
         IN  IF j.panic
             THEN [NoLookup EXCEPT !.panic = TRUE, !.at = "arith", !.idx = i.val]
             ELSE IF j.val >= Len(M)
             THEN [NoLookup EXCEPT !.panic = TRUE, !.at = "entry",
                                   !.idx = i.val, !.index = j.val]
             ELSE [panic |-> FALSE, at |-> "none", idx |-> i.val,
                   index |-> j.val, mapping |-> M[j.val + 1]]

find_char(cp, checks) == find_char_in(TABLE, MAPPING_TABLE, cp, checks)

----------------------------------------------------------------------------
(* Mapper *)

\* Option<char>
NoChar == [some |-> FALSE, c |-> 0]
SomeChar(c) == [some |-> TRUE, c |-> c]

\* Option<Chars<'static>>: the characters the iterator has yet to yield.
NoSlice == [some |-> FALSE, rest |-> <<>>]
SomeSlice(s) == [some |-> TRUE, rest |-> s]

\* A plausible slip: `if let Some(s) = &mut self.slice { return s.next(); }`,
\* which ends the sequence when the replacement is drained.
SliceNextReturnsNone(s) ==
    IF s.some
    THEN IF s.rest # <<>>
         THEN [returned |-> TRUE, ret |-> SomeChar(Head(s.rest)),
               slice |-> SomeSlice(Tail(s.rest))]
         ELSE [returned |-> TRUE, ret |-> NoChar, slice |-> s]
    ELSE [returned |-> FALSE, ret |-> NoChar, slice |-> s]

\* A plausible slip: `if let Some(mut s) = self.slice.take()`, which yields
\* the first pending character and forgets the rest.
SliceNextTakes(s) ==
    IF s.some
    THEN IF s.rest # <<>>
         THEN [returned |-> TRUE, ret |-> SomeChar(Head(s.rest)),
               slice |-> NoSlice]
         ELSE [returned |-> FALSE, ret |-> NoChar, slice |-> NoSlice]
    ELSE [returned |-> FALSE, ret |-> NoChar, slice |-> s]

\* if let Some(s) = &mut self.slice {
\*     match s.next() { Some(c) => return Some(c),
\*                      None => { self.slice = None; } } }
SliceNext(s) ==
    IF s.some
    THEN IF s.rest # <<>>
         THEN [returned |-> TRUE, ret |-> SomeChar(Head(s.rest)),
               slice |-> SomeSlice(Tail(s.rest))]
         ELSE [returned |-> FALSE, ret |-> NoChar, slice |-> NoSlice]
    ELSE [returned |-> FALSE, ret |-> NoChar, slice |-> s]

\* A plausible slip: the uppercase letters taken for fast-path characters.
FastPathWithUppercase(cp) ==
    \/ cp = 46
    \/ cp = 45
    \/ cp \in 97..122
    \/ cp \in 65..90
    \/ cp \in 48..57

\* if let '.' | '-' | 'a'..='z' | '0'..='9' = codepoint
FastPath(cp) ==
    \/ cp = 46
    \/ cp = 45
    \/ cp \in 97..122
    \/ cp \in 48..57

Return(c, s) == [kind |-> "return", c |-> c, slice |-> s]
Continue(s) == [kind |-> "continue", c |-> 0, slice |-> s]
Unwind(s) == [kind |-> "panic", c |-> 0, slice |-> s]

\* A plausible slip: Disallowed handled like Ignored.
MatchMappingDisallowedAsIgnored(m, cp, flag, s) ==
    CASE m.tag = "Valid" -> Return(cp, s)
      [] m.tag = "Ignored" ->
            IF flag THEN Return(REPLACEMENT_CHARACTER, s) ELSE Continue(s)
      [] m.tag = "Mapped" ->
            LET d == decode_slice(m) IN
            IF d.panic THEN Unwind(s) ELSE Continue(SomeSlice(d.val))
      [] m.tag = "Disallowed" ->
            IF flag THEN Return(REPLACEMENT_CHARACTER, s) ELSE Continue(s)

\* A plausible slip: the test of ignored_as_errors inverted.
MatchMappingFlagInverted(m, cp, flag, s) ==
    CASE m.tag = "Valid" -> Return(cp, s)
      [] m.tag = "Ignored" ->
            IF ~flag THEN Return(REPLACEMENT_CHARACTER, s) ELSE Continue(s)
      [] m.tag = "Mapped" ->
            LET d == decode_slice(m) IN
            IF d.panic THEN Unwind(s) ELSE Continue(SomeSlice(d.val))
      [] m.tag = "Disallowed" -> Return(REPLACEMENT_CHARACTER, s)

\* A plausible slip: ignored_as_errors never consulted.
MatchMappingIgnoredSkipped(m, cp, flag, s) ==
    CASE m.tag = "Valid" -> Return(cp, s)
      [] m.tag = "Ignored" -> Continue(s)
      [] m.tag = "Mapped" ->
            LET d == decode_slice(m) IN
            IF d.panic THEN Unwind(s) ELSE Continue(SomeSlice(d.val))
      [] m.tag = "Disallowed" -> Return(REPLACEMENT_CHARACTER, s)

\* A plausible slip: a Disallowed codepoint passed through unchanged.
MatchMappingDisallowedPassed(m, cp, flag, s) ==
    CASE m.tag = "Valid" -> Return(cp, s)
      [] m.tag = "Ignored" ->
            IF flag THEN Return(REPLACEMENT_CHARACTER, s) ELSE Continue(s)
      [] m.tag = "Mapped" ->
            LET d == decode_slice(m) IN
            IF d.panic THEN Unwind(s) ELSE Continue(SomeSlice(d.val))
      [] m.tag = "Disallowed" -> Return(cp, s)

\* return Some(match *find_char(codepoint) {
\*     Mapping::Valid => codepoint,
\*     Mapping::Ignored => if self.ignored_as_errors { '\u{FFFD}' } else { continue },
\*     Mapping::Mapped(ref slice) => {
\*         self.slice = Some(decode_slice(slice).chars()); continue },
\*     Mapping::Disallowed => '\u{FFFD}' });
MatchMapping(m, cp, flag, s) ==
    CASE m.tag = "Valid" -> Return(cp, s)
      [] m.tag = "Ignored" ->
            IF flag THEN Return(REPLACEMENT_CHARACTER, s) ELSE Continue(s)
      [] m.tag = "Mapped" ->
            LET d == decode_slice(m) IN
            IF d.panic THEN Unwind(s) ELSE Continue(SomeSlice(d.val))
      [] m.tag = "Disallowed" -> Return(REPLACEMENT_CHARACTER, s)

\* What one next() call has done so far: codepoints pulled from the source,
\* calls of chars.next(), iterations of the loop, calls of find_char.
NoWork == [pulled |-> 0, polls |-> 0, iters |-> 0, lookups |-> 0]

\* The outcome of one next() call.  from is the position in the input of the
\* codepoint the returned character stems from (0 when nothing is returned).
Outcome(ret, panic, cs, s, owner, from, w) ==
    [ret |-> ret, panic |-> panic, chars |-> cs, slice |-> s, owner |-> owner,
     from |-> from, pulled |-> w.pulled, polls |-> w.polls, iters |-> w.iters,
     lookups |-> w.lookups]

\* The body of Mapper::next: the loop, run to its return.  cs, s and flag are
\* the Mapper's fields; owner and pos (the position in the input of the
\* codepoint pulled last) and w only observe.
RECURSIVE next(_, _, _, _, _, _, _)
next(cs, s, flag, checks, owner, pos, w) ==
    LET w1 == [w EXCEPT !.iters = @ + 1]
        sn == SliceNext(s)
    IN  IF sn.returned
        THEN Outcome(sn.ret, FALSE, cs, sn.slice, owner, IF sn.ret.some THEN owner ELSE 0, w1)
        ELSE LET w2 == [w1 EXCEPT !.polls = @ + 1] IN
             IF cs = <<>>
             THEN \* let codepoint = self.chars.next()?;
                  Outcome(NoChar, FALSE, cs, sn.slice, 0, 0, w2)
             ELSE LET cp == Head(cs)
                      w3 == [w2 EXCEPT !.pulled = @ + 1]
                  IN  IF FastPath(cp)
                      THEN Outcome(SomeChar(cp), FALSE, Tail(cs), sn.slice, 0, pos + 1, w3)
                      ELSE LET f == find_char(cp, checks)
                               w4 == [w3 EXCEPT !.lookups = @ + 1]
                           IN  IF f.panic
                               THEN Outcome(NoChar, TRUE, Tail(cs), sn.slice, 0, 0, w4)
                               ELSE LET a == MatchMapping(f.mapping, cp, flag, sn.slice) IN
                                    CASE a.kind = "return" ->
                                           Outcome(SomeChar(a.c), FALSE, Tail(cs), a.slice, 0, pos + 1, w4)
                                      [] a.kind = "panic" ->
                                           Outcome(NoChar, TRUE, Tail(cs), a.slice, 0, 0, w4)
                                      [] a.kind = "continue" ->
                                           next(Tail(cs), a.slice, flag, checks,
                                                IF a.slice.some THEN pos + 1 ELSE 0,
                                                pos + 1, w4)

----------------------------------------------------------------------------
(* The parts of the state a specification leaves idle *)

NoMasks ==
    [self |-> 0, other |-> 0, left |-> FALSE, right |-> FALSE,
     pair |-> FALSE, transparent |-> FALSE]

NoLookupYet ==
    /\ codepoint = 0
    /\ found = NoLookup
    /\ text = Ok(<<>>)

NoJoiningQuery ==
    /\ jt_repr = <<>>
    /\ jt = "NonJoining"
    /\ jt_other = "NonJoining"
    /\ masks = NoMasks

----------------------------------------------------------------------------
(* The Mapper over a finite source *)

\* '/', 'A', 'a', U+00AD, U+00BD, U+00DF, U+200B, U+FFFD, U+1D401
Alphabet == {47, 65, 97, 173, 189, 223, 8203, 65533, 119809}

\* '-', '.', '0', '9', 'a', 'z' (every arm of the fast-path pattern), 'A',
\* U+00AD, U+00BD
FastAlphabet == {45, 46, 48, 57, 97, 122, 65, 173, 189}

InputsOver(A) == UNION {[1..n -> A] : n \in 0..MaxLen}

NoCall ==
    [called |-> FALSE, ret |-> NoChar, panic |-> FALSE, pending |-> FALSE,
     from |-> 0, first |-> 0, pulled |-> 0, polls |-> 0, iters |-> 0,
     lookups |-> 0]

\* Mapper::new(delegate, ignored_as_errors), the source a sequence over A
InitOver(A) ==
    /\ input \in InputsOver(A)
    /\ ignored_as_errors \in BOOLEAN
    /\ overflow_checks \in BOOLEAN
    /\ chars = input
    /\ slice = NoSlice
    /\ out = <<>>
    /\ contrib = <<>>
    /\ slice_owner = 0
    /\ call = NoCall
    /\ pc = "mapper"
    /\ NoLookupYet
    /\ NoJoiningQuery

Init == InitOver(Alphabet)

InitFast == InitOver(FastAlphabet)

\* One call of Mapper::next.  A panic unwinds through the caller, which calls
\* no more.
MapperNext ==
    /\ pc = "mapper"
    /\ ~call.panic
    /\ \E r \in {next(chars, slice, ignored_as_errors, overflow_checks,
                      slice_owner, Len(input) - Len(chars), NoWork)} :
       \E seen \in {[i \in 1..(Len(input) - Len(r.chars)) |->
                        IF i <= Len(contrib) THEN contrib[i] ELSE <<>>]} :
           /\ chars' = r.chars
           /\ slice' = r.slice
           /\ slice_owner' = r.owner
           /\ out' = IF r.ret.some THEN Append(out, r.ret.c) ELSE out
           /\ contrib' = IF r.ret.some
                         THEN [seen EXCEPT ![r.from] = Append(@, r.ret.c)]
                         ELSE seen
           /\ call' = [called |-> TRUE, ret |-> r.ret, panic |-> r.panic,
                       pending |-> slice.some /\ slice.rest # <<>>,
                       from |-> r.from, first |-> Len(input) - Len(chars),
                       pulled |-> r.pulled, polls |-> r.polls,
                       iters |-> r.iters, lookups |-> r.lookups]
    /\ UNCHANGED <<input, ignored_as_errors, overflow_checks, pc>>
    /\ UNCHANGED lookupVars
    /\ UNCHANGED joiningVars

Next == MapperNext

Spec == Init /\ [][Next]_vars

\* The same Mapper over sources rich in fast-path characters.
SpecFast == InitFast /\ [][Next]_vars

----------------------------------------------------------------------------
(* A single lookup in the program's table *)

NoMapper ==
    /\ input = <<>>
    /\ ignored_as_errors = FALSE
    /\ chars = <<>>
    /\ slice = NoSlice
    /\ out = <<>>
    /\ contrib = <<>>
    /\ slice_owner = 0
    /\ call = NoCall

\* '.', '-', '0'..'9', 'a'..'z'
FastPathChars == {46, 45} \cup (48..57) \cup (97..122)

\* The first and the last codepoint of every range and the one after its
\* first, all of U+0000..U+00FF (the fast-path characters among them) and of
\* U+1D400..U+1D419, and the ends of the two halves of char.
Codepoints ==
    {c \in {TABLE[i][1] + d : i \in 1..Len(TABLE), d \in {-1, 0, 1}}
           \cup (0..255) \cup (119808..119833)
           \cup {55295, 57344, CHAR_MAX} : IsChar(c)}

InitLookup ==
    /\ codepoint \in Codepoints
    /\ overflow_checks \in BOOLEAN
    /\ found = NoLookup
    /\ text = Ok(<<>>)
    /\ pc = "find_char"
    /\ NoMapper
    /\ NoJoiningQuery

\* find_char(codepoint)
FindChar ==
    /\ pc = "find_char"
    /\ found' = find_char(codepoint, overflow_checks)
    /\ pc' = IF found'.panic THEN "panicked"
             ELSE IF found'.mapping.tag = "Mapped" THEN "decode_slice"
             ELSE "done"
    /\ UNCHANGED <<codepoint, text, overflow_checks>>
    /\ UNCHANGED mapperVars
    /\ UNCHANGED joiningVars

\* decode_slice(slice).chars() on the Mapped entry found
DecodeSlice ==
    /\ pc = "decode_slice"
    /\ text' = decode_slice(found.mapping)
    /\ pc' = IF text'.panic THEN "panicked" ELSE "done"
    /\ UNCHANGED <<codepoint, found, overflow_checks>>
    /\ UNCHANGED mapperVars
    /\ UNCHANGED joiningVars

NextLookup == FindChar \/ DecodeSlice

SpecLookup == InitLookup /\ [][NextLookup]_vars

----------------------------------------------------------------------------
(* Joining types *)

\* The variants of unicode_joining_type::JoiningType.
JoiningTypes ==
    {"DualJoining", "JoinCausing", "LeftJoining", "NonJoining",
     "RightJoining", "Transparent"}

\* `jt as u32`: a discriminant per variant, no two alike.
Discriminants ==
    {f \in [JoiningTypes -> 0..(Cardinality(JoiningTypes) - 1)] :
        \A a, b \in JoiningTypes : a # b => f[a] # f[b]}

RECURSIVE Pow2(_)
Pow2(n) == IF n = 0 THEN 1 ELSE 2 * Pow2(n - 1)

\* a & b on u32
RECURSIVE BitAnd(_, _)
BitAnd(a, b) ==
    IF a = 0 \/ b = 0 THEN 0
    ELSE (IF a % 2 = 1 /\ b % 2 = 1 THEN 1 ELSE 0)
         + 2 * BitAnd(a \div 2, b \div 2)

\* a | b on u32
RECURSIVE BitOr(_, _)
BitOr(a, b) ==
    IF a = 0 THEN b
    ELSE IF b = 0 THEN a
    ELSE (IF a % 2 = 1 \/ b % 2 = 1 THEN 1 ELSE 0)
         + 2 * BitOr(a \div 2, b \div 2)

\* A plausible slip: the discriminant itself taken for the mask.
JoiningTypeToMaskNoShift(j) == jt_repr[j]

\* const fn joining_type_to_mask(jt) -> u32 { 1u32 << (jt as u32) }
\* The discriminants are below 6, so the shift stays within the u32.
joining_type_to_mask(j) == Pow2(jt_repr[j])

LEFT_OR_DUAL_JOINING_MASK ==
    BitOr(joining_type_to_mask("LeftJoining"),
          joining_type_to_mask("DualJoining"))

RIGHT_OR_DUAL_JOINING_MASK ==
    BitOr(joining_type_to_mask("RightJoining"),
          joining_type_to_mask("DualJoining"))

\* JoiningType::to_mask
to_mask(j) == joining_type_to_mask(j)

\* JoiningType::is_transparent
is_transparent(j) == j = "Transparent"

\* JoiningTypeMask::intersects
intersects(self, other) == BitAnd(self, other) # 0

InitJoining ==
    /\ jt_repr \in Discriminants
    /\ jt \in JoiningTypes
    /\ jt_other \in JoiningTypes
    /\ masks = NoMasks
    /\ pc = "to_mask"
    /\ overflow_checks = FALSE
    /\ NoLookupYet
    /\ NoMapper

\* jt.to_mask() and jt_other.to_mask()
ToMask ==
    /\ pc = "to_mask"
    /\ masks' = [masks EXCEPT !.self = to_mask(jt), !.other = to_mask(jt_other)]
    /\ pc' = "intersects"
    /\ UNCHANGED <<jt_repr, jt, jt_other, overflow_checks>>
    /\ UNCHANGED lookupVars
    /\ UNCHANGED mapperVars

\* The two predefined masks and the two masks computed, intersected with the
\* first; jt.is_transparent().
Intersects ==
    /\ pc = "intersects"
    /\ masks' = [masks EXCEPT
                    !.left = intersects(LEFT_OR_DUAL_JOINING_MASK, masks.self),
                    !.right = intersects(RIGHT_OR_DUAL_JOINING_MASK, masks.self),
                    !.pair = intersects(masks.self, masks.other),
                    !.transparent = is_transparent(jt)]
    /\ pc' = "done"
    /\ UNCHANGED <<jt_repr, jt, jt_other, overflow_checks>>
    /\ UNCHANGED lookupVars
    /\ UNCHANGED mapperVars

NextJoining == ToMask \/ Intersects

SpecJoining == InitJoining /\ [][NextJoining]_vars

----------------------------------------------------------------------------
(* The data model of section 3, stated without the search *)

\* The range of T that holds cp: the one with the greatest base <= cp.
RangeOf(T, cp) ==
    CHOOSE i \in 1..Len(T) :
        /\ T[i][1] <= cp
        /\ \A j \in 1..Len(T) : T[j][1] <= cp => T[j][1] <= T[i][1]

Flagged(x) == x >= SINGLE_MARKER
OffsetOf(x) == x % SINGLE_MARKER

\* index = offset when the flag is set, offset + (codepoint - base) when not.
EntryIndex(T, cp) ==
    LET e == T[RangeOf(T, cp)] IN
    IF Flagged(e[2]) THEN OffsetOf(e[2]) ELSE OffsetOf(e[2]) + (cp - e[1])

Dispositions == {"Valid", "Ignored", "Mapped", "Disallowed"}

----------------------------------------------------------------------------
(* C1 *)

\* C1: for every codepoint, find_char returns a disposition and never
\* panics, with or without overflow checks: the index into the range table
\* is one of its indices and names a range that starts at or below the
\* codepoint, the index into the mapping entries is one of its indices, and
\* the replacement text of a Mapped entry lies within the string table and
\* decodes.
C1_LookupIsTotal ==
    /\ pc # "panicked"
    /\ pc \in {"decode_slice", "done"} =>
          /\ ~found.panic
          /\ found.idx \in 0..(Len(TABLE) - 1)
          /\ TABLE[found.idx + 1][1] <= codepoint
          /\ found.index \in 0..(Len(MAPPING_TABLE) - 1)
          /\ found.mapping = MAPPING_TABLE[found.index + 1]
          /\ found.mapping.tag \in Dispositions
    /\ pc = "done" /\ found.mapping.tag = "Mapped" =>
          /\ ~text.panic
          /\ found.mapping.byte_start_hi * 256 + found.mapping.byte_start_lo
               + found.mapping.byte_len <= Len(STRING_TABLE)
          /\ \A k \in 1..Len(text.val) : IsChar(text.val[k])

\* U+00BD, in a range with an entry per codepoint, looked up with overflow
\* checks: entry 30, whose text starts past byte 255 and holds a three-byte
\* character.
C1_Witness ==
    /\ pc = "done"
    /\ codepoint = 189
    /\ overflow_checks
    /\ found.index = 30
    /\ found.mapping.byte_start_hi = 1
    /\ text = Ok(<<49, 8260, 50>>)

----------------------------------------------------------------------------
(* C9 *)

\* C9: for every codepoint and every range of the table, with or without
\* overflow checks, find_char selects the range with the greatest base <=
\* codepoint and returns the mapping entry at index offset when the flag of
\* the packed value is set, and at index offset + (codepoint - base) when it
\* is clear, offset being the low 15 bits.  The codepoints looked up include
\* those above U+FFFF in a flag-clear range (both codepoint and base lose
\* their upper bits in the truncation to u16) and those of flag-set ranges
\* whose base differs from the codepoint above the low 16 bits.
C9_IndexFollowsPackedValue ==
    pc # "find_char" =>
        LET r == RangeOf(TABLE, codepoint)
            base == TABLE[r][1]
            x == TABLE[r][2]
        IN  /\ ~found.panic
            /\ base <= codepoint
            /\ r < Len(TABLE) => codepoint < TABLE[r + 1][1]
            /\ found.idx + 1 = r
            /\ Flagged(x) => found.index = OffsetOf(x)
            /\ ~Flagged(x) => found.index = OffsetOf(x) + (codepoint - base)
            /\ found.index = EntryIndex(TABLE, codepoint)
            /\ found.mapping = MAPPING_TABLE[found.index + 1]

\* U+1D419, the last codepoint of the flag-clear range based at U+1D400
\* (offset 3), looked up with overflow checks: 0xD419 - 0xD400 = 25 after the
\* truncation, entry 3 + 25, the replacement "z".
C9_Witness ==
    /\ pc = "done"
    /\ codepoint = 119833
    /\ overflow_checks
    /\ codepoint \div U16 > 0
    /\ ~Flagged(TABLE[found.idx + 1][2])
    /\ TABLE[found.idx + 1][1] = 119808
    /\ found.index = 28
    /\ text = Ok(<<122>>)

----------------------------------------------------------------------------
(* C8 *)

\* Bit i of mask m.
RECURSIVE BitAt(_, _)
BitAt(m, i) == IF i = 0 THEN m % 2 = 1 ELSE BitAt(m \div 2, i - 1)

MaskBits == 0..31

\* C8: to_mask sets exactly the bit of its category; intersects is true iff
\* the masks share a bit; LEFT_OR_DUAL_JOINING_MASK intersects c.to_mask()
\* iff c is LeftJoining or DualJoining, RIGHT_OR_DUAL_JOINING_MASK iff c is
\* RightJoining or DualJoining.
C8_Masks ==
    pc = "done" =>
        /\ {i \in MaskBits : BitAt(masks.self, i)} = {jt_repr[jt]}
        /\ masks.pair <=>
              \E i \in MaskBits : BitAt(masks.self, i) /\ BitAt(masks.other, i)
        /\ masks.pair <=> jt = jt_other
        /\ masks.left <=>
              \E i \in MaskBits :
                  BitAt(LEFT_OR_DUAL_JOINING_MASK, i) /\ BitAt(masks.self, i)
        /\ masks.left <=> jt \in {"LeftJoining", "DualJoining"}
        /\ masks.right <=> jt \in {"RightJoining", "DualJoining"}
        /\ masks.transparent <=> jt = "Transparent"

\* LeftJoining against both predefined masks and against RightJoining.
C8_Witness ==
    /\ pc = "done"
    /\ jt = "LeftJoining"
    /\ jt_other = "RightJoining"
    /\ masks.left
    /\ ~masks.right
    /\ ~masks.pair

----------------------------------------------------------------------------
(* What the table says of a codepoint, and what the Mapper owes for it *)

\* The mapping entry of cp by the data model of section 3.
EntryOf(cp) == MAPPING_TABLE[EntryIndex(TABLE, cp) + 1]

Disposition(cp) == EntryOf(cp).tag

\* The replacement text of a Mapped codepoint.
Replacement(cp) == decode_slice_of(STRING_TABLE, EntryOf(cp)).val

\* The characters one input codepoint is to contribute (section 4.2).
Contribution(cp, flag) ==
    IF cp \in FastPathChars THEN <<cp>>
    ELSE CASE Disposition(cp) = "Valid" -> <<cp>>
           [] Disposition(cp) = "Ignored" ->
                 IF flag THEN <<REPLACEMENT_CHARACTER>> ELSE <<>>
           [] Disposition(cp) = "Mapped" -> Replacement(cp)
           [] Disposition(cp) = "Disallowed" -> <<REPLACEMENT_CHARACTER>>

\* The contributions of a sequence of codepoints, in order.
RECURSIVE ExpectedOutput(_, _)
ExpectedOutput(cs, flag) ==
    IF cs = <<>> THEN <<>>
    ELSE Contribution(Head(cs), flag) \o ExpectedOutput(Tail(cs), flag)

\* Number of input codepoints pulled from the source so far.
Consumed == Len(input) - Len(chars)

\* A replacement is pending: self.slice has characters left.
Pending == slice.some /\ slice.rest # <<>>

\* The last next() call returned None.
Ended == call.called /\ ~call.ret.some /\ ~call.panic

\* Positions of the input pulled by the last next() call.
PulledByCall == (call.first + 1)..(call.first + call.pulled)

IsPrefix(p, q) == Len(p) <= Len(q) /\ p = SubSeq(q, 1, Len(p))

----------------------------------------------------------------------------
(* C2 *)

\* C2: every Disallowed codepoint pulled has contributed exactly one U+FFFD,
\* whatever ignored_as_errors is and wherever it stands in the input: the
\* call that pulled it returned U+FFFD for it and pulled nothing after it.
C2_DisallowedIsOneReplacement ==
    /\ Len(contrib) = Consumed
    /\ \A i \in 1..Consumed :
          Disposition(input[i]) = "Disallowed" =>
              /\ contrib[i] = <<REPLACEMENT_CHARACTER>>
              /\ i \in PulledByCall =>
                    /\ call.ret = SomeChar(REPLACEMENT_CHARACTER)
                    /\ call.from = i
                    /\ i = call.first + call.pulled
                    /\ out[Len(out)] = REPLACEMENT_CHARACTER

\* '/' after a dropped U+00AD, ignored_as_errors off: one call pulls both
\* and returns U+FFFD for the second.
C2_Witness ==
    /\ ~ignored_as_errors
    /\ input = <<173, 47, 97>>
    /\ Consumed = 2
    /\ call.pulled = 2
    /\ contrib = <<<<>>, <<65533>>>>
    /\ out = <<65533>>

----------------------------------------------------------------------------
(* C3 *)

\* C3: an Ignored codepoint pulled has contributed nothing when
\* ignored_as_errors is off, and the call that pulled it polled the source
\* again; it has contributed exactly one U+FFFD when ignored_as_errors is
\* on, returned by the call that pulled it.
C3_IgnoredByFlag ==
    /\ Len(contrib) = Consumed
    /\ \A i \in 1..Consumed :
          Disposition(input[i]) = "Ignored" =>
              IF ignored_as_errors
              THEN /\ contrib[i] = <<REPLACEMENT_CHARACTER>>
                   /\ i \in PulledByCall =>
                         /\ call.ret = SomeChar(REPLACEMENT_CHARACTER)
                         /\ call.from = i
                         /\ i = call.first + call.pulled
              ELSE /\ contrib[i] = <<>>
                   /\ i \in PulledByCall =>
                         /\ call.from # i
                         /\ call.polls > i - call.first

\* Two U+00AD before 'a', ignored_as_errors off: the first call pulls all
\* three and returns 'a'.
C3_Witness ==
    /\ ~ignored_as_errors
    /\ input = <<173, 173, 97>>
    /\ call.pulled = 3
    /\ call.ret = SomeChar(97)
    /\ contrib = <<<<>>, <<>>, <<97>>>>
    /\ out = <<97>>

----------------------------------------------------------------------------
(* C4 *)

\* What a Mapped codepoint has contributed and what self.slice still holds
\* for it make up its replacement text; nothing is held for a codepoint
\* other than the one pulled last.
C4_ReplacementInOrder ==
    /\ Len(contrib) = Consumed
    /\ slice_owner \in {0, Consumed}
    /\ Pending => slice_owner = Consumed /\ Disposition(input[Consumed]) = "Mapped"
    /\ \A i \in 1..Consumed :
          input[i] \notin FastPathChars /\ Disposition(input[i]) = "Mapped" =>
              IF slice_owner = i
              THEN contrib[i] \o slice.rest = Replacement(input[i])
              ELSE contrib[i] = Replacement(input[i])

\* A call made while a replacement is pending returns its next character and
\* leaves the source alone.
C4_DrainStep ==
    Pending =>
        /\ chars' = chars
        /\ out' = Append(out, Head(slice.rest))
        /\ slice' = SomeSlice(Tail(slice.rest))
        /\ call'.pulled = 0
        /\ call'.polls = 0

\* C4: a Mapped codepoint with the empty replacement contributes nothing; a
\* longer replacement is contributed whole and in order, one character per
\* next() call, and while it is pending the source is not pulled from.
C4_MappedDrainsBeforePull ==
    [](C4_ReplacementInOrder) /\ [][C4_DrainStep]_vars

\* U+200B (empty replacement) then U+00BD, two of whose three characters
\* have been returned, 'a' still in the source.
C4_Witness ==
    /\ input = <<8203, 189, 97>>
    /\ chars = <<97>>
    /\ contrib = <<<<>>, <<49, 8260>>>>
    /\ slice = SomeSlice(<<50>>)
    /\ call.pending
    /\ call.pulled = 0
    /\ out = <<49, 8260>>

----------------------------------------------------------------------------
(* C5 *)

\* Mapper::next with every codepoint routed through find_char: the loop of
\* next without the fast-path test.
RECURSIVE RouteAllNext(_, _, _, _)
RouteAllNext(cs, s, flag, checks) ==
    LET sn == SliceNext(s) IN
    IF sn.returned
    THEN [ret |-> sn.ret, panic |-> FALSE, chars |-> cs, slice |-> sn.slice]
    ELSE IF cs = <<>>
    THEN [ret |-> NoChar, panic |-> FALSE, chars |-> cs, slice |-> sn.slice]
    ELSE LET cp == Head(cs)
             f == find_char(cp, checks)
         IN  IF f.panic
             THEN [ret |-> NoChar, panic |-> TRUE, chars |-> Tail(cs), slice |-> sn.slice]
             ELSE LET a == MatchMapping(f.mapping, cp, flag, sn.slice) IN
                  CASE a.kind = "return" ->
                         [ret |-> SomeChar(a.c), panic |-> FALSE,
                          chars |-> Tail(cs), slice |-> a.slice]
                    [] a.kind = "panic" ->
                         [ret |-> NoChar, panic |-> TRUE,
                          chars |-> Tail(cs), slice |-> a.slice]
                    [] a.kind = "continue" ->
                         RouteAllNext(Tail(cs), a.slice, flag, checks)

\* All that such a Mapper returns before its first None.
RECURSIVE RouteAll(_, _, _, _)
RouteAll(cs, s, flag, checks) ==
    LET r == RouteAllNext(cs, s, flag, checks) IN
    IF r.panic \/ ~r.ret.some THEN <<>>
    ELSE <<r.ret.c>> \o RouteAll(r.chars, r.slice, flag, checks)

\* C5: find_char yields Valid for every fast-path character; the Mapper
\* returns a fast-path character unchanged and calls find_char only for the
\* other codepoints it pulls; and what it has returned, followed by what a
\* Mapper without the fast path would return from here on, is what a Mapper
\* without the fast path returns for the whole input.
C5_FastPathIsTransparent ==
    /\ \A c \in FastPathChars :
          LET f == find_char(c, overflow_checks) IN
          FastPath(c) /\ ~f.panic /\ f.mapping.tag = "Valid"
    /\ call.lookups = Cardinality({i \in PulledByCall : input[i] \notin FastPathChars})
    /\ /\ call.ret.some
       /\ call.pulled > 0
       /\ input[call.first + call.pulled] \in FastPathChars
       => call.ret = SomeChar(input[call.first + call.pulled])
    /\ out \o RouteAll(chars, slice, ignored_as_errors, overflow_checks)
         = RouteAll(input, NoSlice, ignored_as_errors, overflow_checks)
    /\ Ended => out = RouteAll(input, NoSlice, ignored_as_errors, overflow_checks)

\* ".A9" mapped to ".a9": the last call that returned a character took '9'
\* by the fast path, without a lookup.
C5_Witness ==
    /\ input = <<46, 65, 57>>
    /\ out = <<46, 97, 57>>
    /\ call.ret = SomeChar(57)
    /\ call.pulled = 1
    /\ call.lookups = 0

----------------------------------------------------------------------------
(* C6 *)

\* A next() call runs its loop at most once more than it pulls codepoints,
\* and it pulls no more than the source holds.
C6_CallIsBounded ==
    /\ ~call.panic
    /\ call.iters <= call.pulled + 1
    /\ call.polls <= call.pulled + 1
    /\ call.first + call.pulled <= Len(input)

\* None is returned only after the source returned None, with no
\* replacement pending.
C6_NoneOnlyAtEnd ==
    call.called /\ ~call.ret.some =>
        /\ chars = <<>>
        /\ ~slice.some
        /\ ~call.pending
        /\ call.polls = call.pulled + 1

\* The output is no longer than the contributions of the input; the empty
\* input has the empty output.
C6_OutputIsFinite ==
    /\ Len(out) <= Len(ExpectedOutput(input, ignored_as_errors))
    /\ input = <<>> => out = <<>>

\* Once the source is exhausted and nothing is pending, next() returns
\* None; a call that returns a character lengthens the output by it, so no
\* more than Len(ExpectedOutput(input)) calls return one.
C6_EndStep ==
    /\ chars = <<>> /\ ~Pending => ~call'.ret.some /\ out' = out
    /\ call'.ret.some => out' = Append(out, call'.ret.c)
    /\ ~call'.ret.some => out' = out /\ chars' = <<>>

\* C6: every next() call terminates, after at most one more turn of its loop
\* than the codepoints it pulls; None is returned only when the source is
\* exhausted and no replacement is pending, and is returned then; the output
\* of a finite input is finite, that of the empty input empty.
C6_Terminates ==
    /\ [](C6_CallIsBounded /\ C6_NoneOnlyAtEnd /\ C6_OutputIsFinite)
    /\ [][C6_EndStep]_vars

\* U+00BD, U+00AD, U+200B with ignored_as_errors off: after "1/2" the last
\* call drops the drained replacement, pulls both remaining codepoints, drops
\* the empty replacement and returns None after three turns of the loop.
C6_Witness ==
    /\ Ended
    /\ ~ignored_as_errors
    /\ input = <<189, 173, 8203>>
    /\ out = <<49, 8260, 50>>
    /\ call.pulled = 2
    /\ call.polls = 3
    /\ call.iters = 3

----------------------------------------------------------------------------
(* C7 *)

\* C7: next() never panics, and the output so far holds U+FFFD iff a
\* codepoint pulled so far is Disallowed, or Ignored with ignored_as_errors
\* on; at the end that is every codepoint of the input.
C7_ReplacementIsTheOnlySignal ==
    /\ ~call.panic
    /\ (\E k \in 1..Len(out) : out[k] = REPLACEMENT_CHARACTER)
         <=> \E i \in 1..Consumed :
                \/ Disposition(input[i]) = "Disallowed"
                \/ Disposition(input[i]) = "Ignored" /\ ignored_as_errors
    /\ Ended => Consumed = Len(input)

\* U+00AD, '/', U+00BD with ignored_as_errors off: the only U+FFFD of the
\* output stands for '/'.
C7_Witness ==
    /\ Ended
    /\ ~ignored_as_errors
    /\ input = <<173, 47, 189>>
    /\ out = <<65533, 49, 8260, 50>>

----------------------------------------------------------------------------
(* C10 *)

\* C10: the source is consumed from the front, one codepoint at a time; what
\* has been returned, the pending replacement and the contributions of the
\* codepoints still in the source make up the contributions of the whole
\* input, in order; at the end the output is exactly that.
C10_OutputIsConcatenation ==
    /\ chars = SubSeq(input, Consumed + 1, Len(input))
    /\ PulledByCall \subseteq 1..Len(input)
    /\ out \o slice.rest \o ExpectedOutput(chars, ignored_as_errors)
         = ExpectedOutput(input, ignored_as_errors)
    /\ Ended => out = ExpectedOutput(input, ignored_as_errors)

\* U+1D401, U+00AD, U+00BD with ignored_as_errors on: "b", U+FFFD, "1/2".
C10_Witness ==
    /\ Ended
    /\ ignored_as_errors
    /\ input = <<119809, 173, 189>>
    /\ out = <<98, 65533, 49, 8260, 50>>
    /\ contrib = <<<<98>>, <<65533>>, <<49, 8260, 50>>>>

====
